---- MODULE Spec2Model ----
(***************************************************************************)
(* Model of the sync manager (components/sync_manager/src/manager.rs).     *)
(*                                                                         *)
(* The state is the SyncManager struct (mem_cached_state, the two Weak     *)
(* handles) plus the poison flag of the logins mutex the handle points     *)
(* to.  Every public method is one action.  The observation variables      *)
(* op / ret / calls / failed describe the most recent call: its name and   *)
(* arguments, what it returned (Ok, Err or a panic), the external calls    *)
(* it made in order, and which of those calls reported an error.           *)
(***************************************************************************)
EXTENDS Integers, Sequences, FiniteSets, TLC

\* ---------------------------------------------------------------- bounds
\* Longest explicit engine list a sync request carries.
MaxList == 2
\* Most optional fields a client record document carries.
MaxFields == 2

\* ------------------------------------------------------------- constants
LOGINS_ENGINE == "passwords"
HISTORY_ENGINE == "history"
BOOKMARKS_ENGINE == "bookmarks"

\* Engine names a caller may pass: the three catalog names, the name the
\* lifecycle operations use for the credentials store, and a foreign one.
Names == {LOGINS_ENGINE, HISTORY_ENGINE, BOOKMARKS_ENGINE, "logins", "tabs"}

\* The fixed catalog of the sync request validation.
Catalog == {LOGINS_ENGINE, HISTORY_ENGINE, BOOKMARKS_ENGINE}

\* Weak<T>: never set (Weak::new()), pointing to a live owner, or to a
\* dropped one.  upgrade() yields Some only for a live owner.
WeakStates == {"new", "alive", "dropped"}
upgrade(w) == w = "alive"

\* Option<T> as a sequence of length at most one.
None == <<>>
Some(x) == <<x>>
is_some(o) == Len(o) = 1
unwrap_or_default(o, d) == IF is_some(o) THEN o[1] ELSE d

Range(s) == {s[i] : i \in 1..Len(s)}
SeqsUpTo(S, n) == UNION {[1..k -> S] : k \in 0..n}

AdapterCall(e) == CASE e = "history" -> "history.sync"
                      [] e = "bookmarks" -> "bookmarks.sync"
                      [] e = "passwords" -> "passwords.sync"

VARIABLES mem_cached_state, places, logins, logins_poisoned,
          op, ret, calls, failed, stores, pass_mem,
          service_status, logins_held, record_in, record_out

\* stores: the adapters the last sync handed to the sync driver, in order.
\* pass_mem: the in-memory cached state as the last pass left it in its
\* local variable (None when the last call ran no pass).
\* service_status: the status sync15 reported to the last pass ("" when the
\* last call ran no pass).
\* logins_held: a guard of the logins mutex taken by the manager is alive.
\* record_in, record_out: a client record document as read from the
\* server and as written back; the manager's methods do not touch them.
vars == <<mem_cached_state, places, logins, logins_poisoned,
          op, ret, calls, failed, stores, pass_mem,
          service_status, logins_held, record_in, record_out>>

\* ------------------------------------------------------- return values
NoResults == [e \in {} |-> ""]
RetOk == [kind |-> "Ok", err |-> "", arg |-> "", status |-> "",
          results |-> NoResults, persisted_state |-> "", has_result |-> FALSE]
RetErr(k, a) == [RetOk EXCEPT !.kind = "Err", !.err = k, !.arg = a]
RetPanic(msg) == [RetOk EXCEPT !.kind = "Panic", !.arg = msg]
\* Variant: the result carries no persisted state.
RetSyncResult_drops_state(st, res, ps) ==
    [RetOk EXCEPT !.status = st, !.results = res, !.has_result = TRUE]

RetSyncResult(st, res, ps) ==
    [RetOk EXCEPT !.status = st, !.results = res, !.persisted_state = ps,
                  !.has_result = TRUE]

NoParams == [engine |-> ""]
OpRec(name, params) == [name |-> name, params |-> params]

\* An outcome of a method body: the value returned and the trace of
\* external calls.
Outcome(r, c) == [ret |-> r, calls |-> c]

\* No client record document.
NoRecord == [f \in {} |-> ""]

\* ------------------------------------------------------------ new()
Init ==
    /\ mem_cached_state = None
    /\ places = "new"
    /\ logins = "new"
    /\ logins_poisoned = FALSE
    /\ op = OpRec("new", NoParams)
    /\ ret = RetOk
    /\ calls = <<>>
    /\ failed = {}
    /\ stores = <<>>
    /\ pass_mem = None
    /\ service_status = ""
    /\ logins_held = FALSE
    /\ record_in = NoRecord
    /\ record_out = NoRecord

\* ------------------------------------------------- registration surface
set_places ==
    /\ places' = "alive"
    /\ op' = OpRec("set_places", NoParams)
    /\ ret' = RetOk
    /\ calls' = <<>>
    /\ failed' = {}
    /\ stores' = <<>>
    /\ pass_mem' = None
    /\ service_status' = ""
    /\ UNCHANGED <<logins_held, record_in, record_out>>
    /\ UNCHANGED <<mem_cached_state, logins, logins_poisoned>>

\* A newly registered Arc<Mutex<..>> carries a mutex nobody has poisoned.
set_logins ==
    /\ logins' = "alive"
    /\ logins_poisoned' = FALSE
    /\ op' = OpRec("set_logins", NoParams)
    /\ ret' = RetOk
    /\ calls' = <<>>
    /\ failed' = {}
    /\ stores' = <<>>
    /\ pass_mem' = None
    /\ service_status' = ""
    /\ UNCHANGED <<logins_held, record_in, record_out>>
    /\ UNCHANGED <<mem_cached_state, places>>

\* The owner drops its Arc: the manager's Weak no longer upgrades.
drop_places ==
    /\ places = "alive"
    /\ places' = "dropped"
    /\ op' = OpRec("drop_places", NoParams)
    /\ ret' = RetOk
    /\ calls' = <<>>
    /\ failed' = {}
    /\ stores' = <<>>
    /\ pass_mem' = None
    /\ service_status' = ""
    /\ UNCHANGED <<logins_held, record_in, record_out>>
    /\ UNCHANGED <<mem_cached_state, logins, logins_poisoned>>

drop_logins ==
    /\ logins = "alive"
    /\ logins' = "dropped"
    /\ op' = OpRec("drop_logins", NoParams)
    /\ ret' = RetOk
    /\ calls' = <<>>
    /\ failed' = {}
    /\ stores' = <<>>
    /\ pass_mem' = None
    /\ service_status' = ""
    /\ UNCHANGED <<logins_held, record_in, record_out>>
    /\ UNCHANGED <<mem_cached_state, places, logins_poisoned>>

\* The owner (or any other holder of the Arc) panics while it holds the
\* logins mutex: the mutex is poisoned from then on.
poison_logins ==
    /\ logins = "alive"
    /\ ~logins_poisoned
    /\ logins_poisoned' = TRUE
    /\ op' = OpRec("poison_logins", NoParams)
    /\ ret' = RetOk
    /\ calls' = <<>>
    /\ failed' = {}
    /\ stores' = <<>>
    /\ pass_mem' = None
    /\ service_status' = ""
    /\ UNCHANGED <<logins_held, record_in, record_out>>
    /\ UNCHANGED <<mem_cached_state, places, logins>>

\* ------------------------------------------------- lifecycle operations
\* self.logins.upgrade().as_ref().map(|l| l.lock().expect(..)): Some(guard)
\* when the owner is alive, None otherwise; a poisoned mutex panics.
lock_panics(l, poisoned) == upgrade(l) /\ poisoned
lock_calls(l) == IF upgrade(l) THEN <<"logins.lock">> ELSE <<>>

\* Variant: the guard outlives the call that took it.
held_after_leaks(c) == "logins.lock" \in {c[i] : i \in 1..Len(c)}

\* Every guard is a local of the method (of the `if let` arm in the
\* lifecycle operations, `l` in sync): it is dropped when the method
\* returns or unwinds, whatever calls c the method made.
held_after(c) == FALSE

\* F is the set of external calls that report an error when made.
wipe_body(engine, p, l, poisoned, F) ==
    IF engine = "logins" THEN
        IF lock_panics(l, poisoned)
        THEN Outcome(RetPanic("poisoned logins mutex"), lock_calls(l))
        ELSE IF upgrade(l)
        THEN Outcome(IF "logins.wipe" \in F THEN RetErr("StoreError", engine)
                                            ELSE RetOk,
                     <<"logins.lock", "logins.wipe">>)
        ELSE Outcome(RetErr("ConnectionClosed", engine), <<>>)
    ELSE IF engine = "bookmarks" THEN
        IF upgrade(p)
        THEN Outcome(IF "places.wipe_bookmarks" \in F
                     THEN RetErr("StoreError", engine) ELSE RetOk,
                     <<"places.wipe_bookmarks">>)
        ELSE Outcome(RetErr("ConnectionClosed", engine), <<>>)
    ELSE Outcome(RetErr("UnknownEngine", engine), <<>>)

Finish(name, params, o, F) ==
    /\ op' = OpRec(name, params)
    /\ ret' = o.ret
    /\ calls' = o.calls
    /\ F \subseteq Range(o.calls)      \* only a call that is made can fail
    /\ failed' = F
    /\ stores' = <<>>
    /\ pass_mem' = None
    /\ service_status' = ""
    /\ logins_held' = held_after(o.calls)
    /\ UNCHANGED <<record_in, record_out>>

wipe ==
    \E engine \in Names, F \in SUBSET {"logins.wipe", "places.wipe_bookmarks"} :
        /\ Finish("wipe", [engine |-> engine],
                  wipe_body(engine, places, logins, logins_poisoned, F), F)
        /\ UNCHANGED <<mem_cached_state, places, logins, logins_poisoned>>

wipe_all_body(p, l, poisoned, F) ==
    IF lock_panics(l, poisoned)
    THEN Outcome(RetPanic("poisoned logins mutex"), lock_calls(l))
    ELSE LET c1 == IF upgrade(l) THEN <<"logins.lock", "logins.wipe">> ELSE <<>>
         IN  IF upgrade(l) /\ "logins.wipe" \in F
             THEN Outcome(RetErr("StoreError", "logins"), c1)
             ELSE IF upgrade(p)
             THEN Outcome(IF "places.wipe_bookmarks" \in F
                          THEN RetErr("StoreError", "bookmarks") ELSE RetOk,
                          c1 \o <<"places.wipe_bookmarks">>)
             ELSE Outcome(RetOk, c1)

wipe_all ==
    \E F \in SUBSET {"logins.wipe", "places.wipe_bookmarks"} :
        /\ Finish("wipe_all", NoParams,
                  wipe_all_body(places, logins, logins_poisoned, F), F)
        /\ UNCHANGED <<mem_cached_state, places, logins, logins_poisoned>>

reset_body(engine, p, l, poisoned, F) ==
    IF engine = "logins" THEN
        IF lock_panics(l, poisoned)
        THEN Outcome(RetPanic("poisoned logins mutex"), lock_calls(l))
        ELSE IF upgrade(l)
        THEN Outcome(IF "logins.reset" \in F THEN RetErr("StoreError", engine)
                                             ELSE RetOk,
                     <<"logins.lock", "logins.reset">>)
        ELSE Outcome(RetErr("ConnectionClosed", engine), <<>>)
    ELSE IF engine \in {"bookmarks", "history"} THEN
        IF upgrade(p)
        THEN LET c == IF engine = "bookmarks" THEN "places.reset_bookmarks"
                                              ELSE "places.reset_history"
             IN  Outcome(IF c \in F THEN RetErr("StoreError", engine) ELSE RetOk,
                         <<c>>)
        ELSE Outcome(RetErr("ConnectionClosed", engine), <<>>)
    ELSE Outcome(RetErr("UnknownEngine", engine), <<>>)

ResetCalls == {"logins.reset", "places.reset_bookmarks", "places.reset_history"}

reset ==
    \E engine \in Names, F \in SUBSET ResetCalls :
        /\ Finish("reset", [engine |-> engine],
                  reset_body(engine, places, logins, logins_poisoned, F), F)
        /\ UNCHANGED <<mem_cached_state, places, logins, logins_poisoned>>

reset_all_body(p, l, poisoned, F) ==
    IF lock_panics(l, poisoned)
    THEN Outcome(RetPanic("poisoned logins mutex"), lock_calls(l))
    ELSE LET c1 == IF upgrade(l) THEN <<"logins.lock", "logins.reset">> ELSE <<>>
         IN  IF upgrade(l) /\ "logins.reset" \in F
             THEN Outcome(RetErr("StoreError", "logins"), c1)
             ELSE IF ~upgrade(p)
             THEN Outcome(RetOk, c1)
             ELSE IF "places.reset_bookmarks" \in F
             THEN Outcome(RetErr("StoreError", "bookmarks"),
                          c1 \o <<"places.reset_bookmarks">>)
             ELSE Outcome(IF "places.reset_history" \in F
                          THEN RetErr("StoreError", "history") ELSE RetOk,
                          c1 \o <<"places.reset_bookmarks", "places.reset_history">>)

reset_all ==
    \E F \in SUBSET ResetCalls :
        /\ Finish("reset_all", NoParams,
                  reset_all_body(places, logins, logins_poisoned, F), F)
        /\ UNCHANGED <<mem_cached_state, places, logins, logins_poisoned>>

\* disconnect logs every failing reset and carries on; it returns ().
disconnect_body(p, l, poisoned, F) ==
    IF lock_panics(l, poisoned)
    THEN Outcome(RetPanic("poisoned logins mutex"), lock_calls(l))
    ELSE Outcome(RetOk,
                 (IF upgrade(l) THEN <<"logins.lock", "logins.reset">> ELSE <<>>)
                 \o (IF upgrade(p)
                     THEN <<"places.reset_bookmarks", "places.reset_history">>
                     ELSE <<>>))

disconnect ==
    \E F \in SUBSET ResetCalls :
        /\ Finish("disconnect", NoParams,
                  disconnect_body(places, logins, logins_poisoned, F), F)
        /\ UNCHANGED <<mem_cached_state, places, logins, logins_poisoned>>

\* ------------------------------------------------------------- sync
\* Names a sync request may list: the catalog and a name outside it.
SyncNames == Catalog \cup {"tabs"}

\* Explicit engine lists: up to MaxList distinct names, in any order.
EngineLists ==
    {s \in SeqsUpTo(SyncNames, MaxList) :
        \A i, j \in 1..Len(s) : i # j => s[i] # s[j]}

GoodKey == "a3N5bmMta2V5LWJ1bmRsZQ"
BadKey == "not base64!"
GoodUrl == "https://token.services.example/1.0/sync/1.5"
BadUrl == "no scheme"

\* The requests tried.  A blob persisted by an earlier pass is supplied on
\* the requests that carry no explicit list.
SyncParamsSet ==
    {q \in [engines_to_sync : EngineLists,
            sync_all_engines : BOOLEAN,
            acct_sync_key : {GoodKey, BadKey},
            acct_tokenserver_url : {GoodUrl, BadUrl},
            persisted_state : {None, Some("state-0")}] :
        is_some(q.persisted_state) => q.engines_to_sync = <<>>}

have_engines(p, l) ==
    (IF upgrade(p) THEN <<HISTORY_ENGINE, BOOKMARKS_ENGINE>> ELSE <<>>)
    \o (IF upgrade(l) THEN <<LOGINS_ENGINE>> ELSE <<>>)

\* Variant: a name outside the catalog is skipped instead of rejected.
RECURSIVE check_engine_list_skips_unknown(_, _)
check_engine_list_skips_unknown(list, have) ==
    IF list = <<>> THEN RetOk
    ELSE LET e == Head(list)
         IN  IF e = "bookmarks" \/ e = "history" \/ e = "passwords"
             THEN IF ~(\E i \in 1..Len(have) : e = have[i])
                  THEN RetErr("UnsupportedFeature", e)
                  ELSE check_engine_list_skips_unknown(Tail(list), have)
             ELSE check_engine_list_skips_unknown(Tail(list), have)

\* Variant: a catalog name is accepted whether or not its store is there.
RECURSIVE check_engine_list_ignores_have(_, _)
check_engine_list_ignores_have(list, have) ==
    IF list = <<>> THEN RetOk
    ELSE LET e == Head(list)
         IN  IF e = "bookmarks" \/ e = "history" \/ e = "passwords"
             THEN check_engine_list_ignores_have(Tail(list), have)
             ELSE RetErr("UnknownEngine", e)

RECURSIVE check_engine_list(_, _)
check_engine_list(list, have) ==
    IF list = <<>> THEN RetOk
    ELSE LET e == Head(list)
         IN  IF e = "bookmarks" \/ e = "history" \/ e = "passwords"
             THEN IF ~(\E i \in 1..Len(have) : e = have[i])
                  THEN RetErr("UnsupportedFeature", e)
                  ELSE check_engine_list(Tail(list), have)
             ELSE RetErr("UnknownEngine", e)

should_sync(params, engine) ==
    params.sync_all_engines
    \/ \E i \in 1..Len(params.engines_to_sync) : params.engines_to_sync[i] = engine

\* sync15::KeyBundle::from_ksync_base64 and url::Url::parse accept
\* well-formed input only.
from_ksync_base64(key) == IF key = GoodKey THEN RetOk
                          ELSE RetErr("Sync15Error", key)
url_parse(u) == IF u = GoodUrl THEN RetOk ELSE RetErr("UrlParseError", u)

\* Variant: the token-server URL is not parsed before the pass starts.
parse_credentials_skips_url(params) ==
    from_ksync_base64(params.acct_sync_key)

\* The two `?` of the credential parsing, in source order.
parse_credentials(params) ==
    IF from_ksync_base64(params.acct_sync_key).kind # "Ok"
    THEN from_ksync_base64(params.acct_sync_key)
    ELSE url_parse(params.acct_tokenserver_url)

\* Result<(), Error> of one adapter.
ResOk == [is_ok |-> TRUE, msg |-> ""]
ResErr(m) == [is_ok |-> FALSE, msg |-> m]
err(r) == IF r.is_ok THEN None ELSE Some(r.msg)
NoEngineResults == [e \in {} |-> ResOk]

\* sync15's statuses, and the public ones.
S15Statuses == {"Ok", "NetworkError", "ServiceError", "AuthenticationError",
                "BackedOff", "Interrupted", "OtherError"}
\* What a pass may report when the registry succeeded and some store failed.
AggregateStatuses == {"Ok", "OtherError"}

\* Variant: an interrupted pass is reported as a success.
ServiceStatus_from_interrupted_ok(s15s) ==
    CASE s15s = "Ok" -> "Ok"
      [] s15s = "NetworkError" -> "NetworkError"
      [] s15s = "ServiceError" -> "ServiceError"
      [] s15s = "AuthenticationError" -> "AuthError"
      [] s15s = "BackedOff" -> "BackedOff"
      [] s15s = "Interrupted" -> "Ok"
      [] s15s = "OtherError" -> "OtherError"

ServiceStatus_from(s15s) ==
    CASE s15s = "Ok" -> "Ok"
      [] s15s = "NetworkError" -> "NetworkError"
      [] s15s = "ServiceError" -> "ServiceError"
      [] s15s = "AuthenticationError" -> "AuthError"
      [] s15s = "BackedOff" -> "BackedOff"
      [] s15s = "Interrupted" -> "OtherError"
      [] s15s = "OtherError" -> "OtherError"

\* sync15::sync_all_stores: every store handed in is synced, one after the
\* other; a failure is recorded against the store's name.
sync15_sync_all_stores(st_vec, F) ==
    [ok |-> TRUE,
     calls |-> [i \in 1..Len(st_vec) |-> AdapterCall(st_vec[i])],
     engine_results |-> [e \in Range(st_vec) |->
                            IF AdapterCall(e) \in F THEN ResErr("sync error")
                                                    ELSE ResOk]]

\* Variant: the clients engine's failure is logged and the stores still run.
sync_all_stores_with_clients_not_fatal(st_vec, F) ==
    LET r == sync15_sync_all_stores(st_vec, F)
    IN  [r EXCEPT !.ok = "clients.sync" \notin F,
                  !.calls = <<"clients.sync">> \o @]

\* The driver handed to sync_multiple_with_params.
sync_all_stores_with_clients(st_vec, F) ==
    IF "clients.sync" \in F
    THEN [ok |-> FALSE, calls |-> <<"clients.sync">>,
          engine_results |-> NoEngineResults]
    ELSE LET r == sync15_sync_all_stores(st_vec, F)
         IN  [r EXCEPT !.calls = <<"clients.sync">> \o @]

\* The status choices st that agree with what the driver did.
StatusAgrees(d, st) ==
    IF ~d.ok THEN st \in S15Statuses \ {"Ok"}
    ELSE IF \A e \in DOMAIN d.engine_results : d.engine_results[e].is_ok
    THEN st = "Ok"
    ELSE st \in AggregateStatuses

UpdatedMem == "updated"
DefaultMem == "default"

\* sync15::sync_multiple_with_params: runs the driver, reports st, leaves
\* the updated in-memory state and, when the driver succeeded, a new disk
\* state in the caller's two &mut arguments.
sync_multiple_with_params(st_vec, F, st, disk, mem) ==
    LET d == sync_all_stores_with_clients(st_vec, F)
    IN  [service_status |-> st,
         agrees |-> StatusAgrees(d, st),
         engine_results |-> d.engine_results,
         calls |-> d.calls,
         disk |-> IF d.ok THEN Some("state-1") ELSE disk,
         mem |-> UpdatedMem]

\* Variant: every engine result is kept, a success with an empty message.
failure_map_keeps_all(engine_results) ==
    [e \in DOMAIN engine_results |-> engine_results[e].msg]

\* result.engine_results.into_iter().filter_map(|(e, r)| r.err()...)
failure_map(engine_results) ==
    [e \in {x \in DOMAIN engine_results : is_some(err(engine_results[x]))} |->
        err(engine_results[e])[1]]

\* The interruptee each adapter of a pass is constructed with: the clients
\* engine, HistoryStore::new and BookmarksStore::new receive the scope the
\* pass created; LoginStore::new receives the database only.
adapter_interruptee(e) ==
    IF e = LOGINS_ENGINE THEN "none" ELSE "pass scope"

build_stores(places_conn, history_sync, bookmarks_sync, locked) ==
    (IF places_conn /\ history_sync THEN <<HISTORY_ENGINE>> ELSE <<>>)
    \o (IF places_conn /\ bookmarks_sync THEN <<BOOKMARKS_ENGINE>> ELSE <<>>)
    \o (IF locked THEN <<LOGINS_ENGINE>> ELSE <<>>)

SyncOutcome(r, c, m, po, sv, pm, ok) ==
    [ret |-> r, calls |-> c, mem |-> m, poisoned |-> po, stores |-> sv,
     pass_mem |-> pm, agrees |-> ok]

sync_body(params, p, l, poisoned, mem, F, st) ==
    LET checked == check_engine_list(params.engines_to_sync, have_engines(p, l))
        creds == parse_credentials(params)
        logins_sync == should_sync(params, LOGINS_ENGINE)
        bookmarks_sync == should_sync(params, BOOKMARKS_ENGINE)
        history_sync == should_sync(params, HISTORY_ENGINE)
        wants_conn == bookmarks_sync \/ history_sync
        c_open == IF wants_conn THEN <<"places.open_sync_connection">> ELSE <<>>
        places_conn == wants_conn /\ "places.open_sync_connection" \notin F
        c_lock == c_open \o lock_calls(l)
        taken == unwrap_or_default(mem, DefaultMem)
        st_vec == build_stores(places_conn, history_sync, bookmarks_sync,
                               upgrade(l))
        r == sync_multiple_with_params(st_vec, F, st, params.persisted_state,
                                       taken)
        early(rt, c) == SyncOutcome(rt, c, mem, poisoned, <<>>, None, st = "Ok")
    IN  IF checked.kind # "Ok" THEN early(checked, <<>>)
        ELSE IF creds.kind # "Ok" THEN early(creds, <<>>)
        ELSE IF wants_conn /\ ~upgrade(p)
        THEN early(RetPanic("already checked"), <<>>)
        ELSE IF lock_panics(l, poisoned)
        THEN early(RetPanic("poisoned mutex"), c_lock)
        ELSE IF upgrade(l) /\ ~logins_sync
        \* the assert fires with the guard alive: unwinding poisons the mutex,
        \* after mem_cached_state.take() has emptied the field
        THEN SyncOutcome(RetPanic("Should have already checked"), c_lock,
                         None, TRUE, <<>>, None, st = "Ok")
        ELSE SyncOutcome(
                 RetSyncResult(ServiceStatus_from(r.service_status),
                               failure_map(r.engine_results),
                               unwrap_or_default(r.disk, "")),
                 c_lock \o r.calls, None, poisoned, st_vec, Some(r.mem),
                 r.agrees)

\* The environment's choices for one request: whether opening the places
\* connection fails, which adapters fail, and the status sync15 reports.
\* Only a call the request makes can fail.
DriverFailures(st_vec) ==
    {{"clients.sync"}} \cup SUBSET {AdapterCall(e) : e \in Range(st_vec)}

StatusChoices(st_vec, F) ==
    {st \in S15Statuses : StatusAgrees(sync_all_stores_with_clients(st_vec, F), st)}

\* The connection may fail to open in every pass that opens it, also in
\* one that panics afterwards; the driver's calls may fail in a pass that
\* reaches the driver.
sync ==
    \E params \in SyncParamsSet :
      \E quiet \in {sync_body(params, places, logins, logins_poisoned,
                              mem_cached_state, {}, "Ok")} :
        \E Fo \in SUBSET (Range(quiet.calls) \cap {"places.open_sync_connection"}) :
          \E sv \in {IF Fo = {} THEN quiet.stores
                     ELSE sync_body(params, places, logins, logins_poisoned,
                                    mem_cached_state, Fo, "Ok").stores} :
            \E Fd \in (IF quiet.ret.has_result THEN DriverFailures(sv) ELSE {{}}) :
              \E st \in (IF quiet.ret.has_result THEN StatusChoices(sv, Fd)
                                                 ELSE {"Ok"}) :
                \E o \in {sync_body(params, places, logins, logins_poisoned,
                                    mem_cached_state, Fo \cup Fd, st)} :
                    /\ o.agrees
                    /\ op' = OpRec("sync", params)
                    /\ ret' = o.ret
                    /\ calls' = o.calls
                    /\ failed' = Fo \cup Fd
                    /\ stores' = o.stores
                    /\ pass_mem' = o.pass_mem
                    /\ service_status' = (IF o.ret.has_result THEN st ELSE "")
                    /\ logins_held' = held_after(o.calls)
                    /\ UNCHANGED <<record_in, record_out>>
                    /\ mem_cached_state' = o.mem
                    /\ logins_poisoned' = o.poisoned
                    /\ UNCHANGED <<places, logins>>

\* ------------------------------------------------- clients/record.rs
\* A JSON value: null, a string, or an array.  A JSON object is a function
\* from its field names to JSON values.
JNull == [t |-> "null", s |-> "", a |-> <<>>]
JStr(x) == [t |-> "str", s |-> x, a |-> <<>>]
JArr(xs) == [t |-> "arr", s |-> "", a |-> xs]

\* The result of deserializing a field or a document.
DeOk(v) == [ok |-> TRUE, v |-> v]
DeErr == [ok |-> FALSE, v |-> <<>>]

\* A field of type String: it must be there, and be a string.
de_String(doc, f) ==
    IF f \in DOMAIN doc /\ doc[f].t = "str" THEN DeOk(doc[f].s) ELSE DeErr

\* #[serde(default)] Option<String>: a missing field and a null are None.
de_Option_String(doc, f) ==
    IF f \notin DOMAIN doc \/ doc[f].t = "null" THEN DeOk(None)
    ELSE IF doc[f].t = "str" THEN DeOk(Some(doc[f].s))
    ELSE DeErr

\* #[serde(default)] Vec<String>: a missing field is the empty vector; a
\* null is an error.
de_Vec_String(doc, f) ==
    IF f \notin DOMAIN doc THEN DeOk(<<>>)
    ELSE IF doc[f].t = "arr" /\ \A i \in 1..Len(doc[f].a) : doc[f].a[i].t = "str"
    THEN DeOk([i \in 1..Len(doc[f].a) |-> doc[f].a[i].s])
    ELSE DeErr

\* Serialize for Option<String> with skip_serializing_if = "Option::is_none",
\* for Option<String> without it, and for Vec<String>.
ser_skip_none(f, o) == IF is_some(o) THEN f :> JStr(o[1]) ELSE NoRecord
ser_Option_String(f, o) == f :> (IF is_some(o) THEN JStr(o[1]) ELSE JNull)
ser_Vec_String(xs) == JArr([i \in 1..Len(xs) |-> JStr(xs[i])])

ClientCommand_deserialize(doc) ==
    LET name == de_String(doc, "command")
        args == de_Vec_String(doc, "args")
        flow_id == de_Option_String(doc, "flowId")
    IN  IF name.ok /\ args.ok /\ flow_id.ok
        THEN DeOk([name |-> name.v, args |-> args.v, flow_id |-> flow_id.v])
        ELSE DeErr

ClientCommand_serialize(c) ==
    ("command" :> JStr(c.name))
    @@ ("args" :> ser_Vec_String(c.args))
    @@ ser_skip_none("flowId", c.flow_id)

\* #[serde(default)] Vec<ClientCommand>.
de_Vec_ClientCommand(doc, f) ==
    IF f \notin DOMAIN doc THEN DeOk(<<>>)
    ELSE IF doc[f].t = "arr"
            /\ \A i \in 1..Len(doc[f].a) : ClientCommand_deserialize(doc[f].a[i]).ok
    THEN DeOk([i \in 1..Len(doc[f].a) |-> ClientCommand_deserialize(doc[f].a[i]).v])
    ELSE DeErr

\* Deserialize for Client: a field the struct does not have is ignored.
Client_deserialize(doc) ==
    LET id == de_String(doc, "id")
        name == de_String(doc, "name")
        typ == de_Option_String(doc, "type")
        commands == de_Vec_ClientCommand(doc, "commands")
        fxa_device_id == de_Option_String(doc, "fxaDeviceId")
        version == de_Option_String(doc, "version")
        protocols == de_Vec_String(doc, "protocols")
        form_factor == de_Option_String(doc, "formfactor")
        os == de_Option_String(doc, "os")
        app_package == de_Option_String(doc, "appPackage")
        application == de_Option_String(doc, "application")
        device == de_Option_String(doc, "device")
    IN  IF /\ id.ok /\ name.ok /\ typ.ok /\ commands.ok /\ fxa_device_id.ok
           /\ version.ok /\ protocols.ok /\ form_factor.ok /\ os.ok
           /\ app_package.ok /\ application.ok /\ device.ok
        THEN DeOk([id |-> id.v, name |-> name.v, typ |-> typ.v,
                   commands |-> commands.v, fxa_device_id |-> fxa_device_id.v,
                   version |-> version.v, protocols |-> protocols.v,
                   form_factor |-> form_factor.v, os |-> os.v,
                   app_package |-> app_package.v,
                   application |-> application.v, device |-> device.v])
        ELSE DeErr

\* Serialize for Client: typ carries no skip_serializing_if.
Client_serialize(c) ==
    ("id" :> JStr(c.id))
    @@ ("name" :> JStr(c.name))
    @@ ser_Option_String("type", c.typ)
    @@ (IF c.commands = <<>> THEN NoRecord
        ELSE "commands" :> JArr([i \in 1..Len(c.commands) |->
                                    ClientCommand_serialize(c.commands[i])]))
    @@ ser_skip_none("fxaDeviceId", c.fxa_device_id)
    @@ ser_skip_none("version", c.version)
    @@ (IF c.protocols = <<>> THEN NoRecord
        ELSE "protocols" :> ser_Vec_String(c.protocols))
    @@ ser_skip_none("formfactor", c.form_factor)
    @@ ser_skip_none("os", c.os)
    @@ ser_skip_none("appPackage", c.app_package)
    @@ ser_skip_none("application", c.application)
    @@ ser_skip_none("device", c.device)

\* The optional fields of a client record on the wire, and a field the
\* struct does not know.
OptionalFields == {"type", "commands", "fxaDeviceId", "version", "protocols",
                   "formfactor", "os", "appPackage", "application", "device"}
ClientFields == {"id", "name"} \cup OptionalFields
WireFields == OptionalFields \cup {"extra"}

\* Command objects as other clients write them.
CommandDocs ==
    {"command" :> JStr("wipeAll"),
     ("command" :> JStr("displayURI")) @@ ("args" :> JArr(<<JStr("uri")>>)),
     ("command" :> JStr("repairRequest")) @@ ("args" :> JArr(<<>>))
        @@ ("flowId" :> JStr("flow-1"))}

\* The values tried for each optional field.
FieldValues(f) ==
    IF f = "commands"
    THEN {JNull, JArr(<<>>)} \cup {JArr(<<c>>) : c \in CommandDocs}
    ELSE IF f = "protocols"
    THEN {JNull, JArr(<<>>), JArr(<<JStr("1.5")>>)}
    ELSE {JNull, JStr(f)}

\* The documents read: id and name, and up to MaxFields other fields.
RecordDocs ==
    UNION {{("id" :> JStr("client-1")) @@ ("name" :> JStr("phone")) @@ g :
               g \in {h \in [S -> UNION {FieldValues(f) : f \in S}] :
                         \A f \in S : h[f] \in FieldValues(f)}} :
           S \in {T \in SUBSET WireFields : Cardinality(T) <= MaxFields}}

manager_vars == <<mem_cached_state, places, logins, logins_poisoned,
                  op, ret, calls, failed, stores, pass_mem,
                  service_status, logins_held>>

\* A record of another client is read from the server.
InitRecord ==
    /\ mem_cached_state = None
    /\ places = "new"
    /\ logins = "new"
    /\ logins_poisoned = FALSE
    /\ op = OpRec("new", NoParams)
    /\ ret = RetOk
    /\ calls = <<>>
    /\ failed = {}
    /\ stores = <<>>
    /\ pass_mem = None
    /\ service_status = ""
    /\ logins_held = FALSE
    /\ record_in \in RecordDocs
    /\ record_out = NoRecord

\* The record is decoded into a Client and the Client is encoded again.
write_back ==
    /\ record_out = NoRecord
    /\ Client_deserialize(record_in).ok
    /\ record_out' = Client_serialize(Client_deserialize(record_in).v)
    /\ UNCHANGED <<manager_vars, record_in>>

NextRecord == write_back

SpecRecord == InitRecord /\ [][NextRecord]_vars

Next ==
    \/ set_places
    \/ set_logins
    \/ drop_places
    \/ drop_logins
    \/ poison_logins
    \/ wipe
    \/ wipe_all
    \/ reset
    \/ reset_all
    \/ disconnect
    \/ sync

Spec == Init /\ [][Next]_vars

\* ================================================================ claims
IsSync == op.name = "sync"
Available(e) == IF e = LOGINS_ENGINE THEN logins = "alive" ELSE places = "alive"
AdapterCalls == {"history.sync", "bookmarks.sync", "passwords.sync"}
\* The positions of a list that validation must reject.
Offending(list) ==
    {i \in 1..Len(list) : list[i] \notin Catalog \/ ~Available(list[i])}
FirstOffending(list) ==
    CHOOSE i \in Offending(list) : \A j \in Offending(list) : i <= j
Untouched == calls = <<>> /\ stores = <<>> /\ failed = {}
GoodCredentials(q) ==
    q.acct_sync_key = GoodKey /\ q.acct_tokenserver_url = GoodUrl

\* C1 (as stated): a sync request whose list holds a name outside the
\* catalog fails with UnknownEngine, whatever else the list holds and
\* whatever is registered, and touches no store.
C1_UnknownEngineWhateverElse ==
    (IsSync /\ \E i \in 1..Len(op.params.engines_to_sync) :
                   op.params.engines_to_sync[i] \notin Catalog)
    => (ret.kind = "Err" /\ ret.err = "UnknownEngine" /\ Untouched)

\* C1 (amended): such a request fails at validation and touches no store;
\* the error is that of the first offending name of the list: UnknownEngine
\* with that name when it is outside the catalog, UnsupportedFeature with
\* that name when it is a catalog engine without a live handle.
C1_FirstOffendingNameDecides ==
    (IsSync /\ \E i \in 1..Len(op.params.engines_to_sync) :
                   op.params.engines_to_sync[i] \notin Catalog)
    => LET e == op.params.engines_to_sync[FirstOffending(op.params.engines_to_sync)]
       IN  /\ ret = RetErr(IF e \notin Catalog THEN "UnknownEngine"
                                               ELSE "UnsupportedFeature", e)
           /\ Untouched

\* A two-name list whose first name is an available catalog engine and whose
\* second is foreign was rejected with UnknownEngine.
C1_Witness ==
    /\ IsSync
    /\ Len(op.params.engines_to_sync) = 2
    /\ op.params.engines_to_sync[1] \in Catalog
    /\ Available(op.params.engines_to_sync[1])
    /\ op.params.engines_to_sync[2] \notin Catalog
    /\ ret = RetErr("UnknownEngine", op.params.engines_to_sync[2])

\* C2 (as stated): a sync request whose list names a catalog engine without
\* a live handle fails with UnsupportedFeature carrying such an engine's
\* name, and touches no store.
C2_UnsupportedFeatureWhateverElse ==
    (IsSync /\ \E i \in 1..Len(op.params.engines_to_sync) :
                   /\ op.params.engines_to_sync[i] \in Catalog
                   /\ ~Available(op.params.engines_to_sync[i]))
    => /\ ret.kind = "Err"
       /\ ret.err = "UnsupportedFeature"
       /\ ret.arg \in {e \in Catalog : ~Available(e)}
       /\ Untouched

\* C2 (amended): such a request fails at validation and touches no store:
\* with UnsupportedFeature carrying the first unavailable catalog name,
\* unless a name outside the catalog comes earlier in the list, and then
\* with UnknownEngine carrying that name.
C2_UnsupportedUnlessUnknownFirst ==
    (IsSync /\ \E i \in 1..Len(op.params.engines_to_sync) :
                   /\ op.params.engines_to_sync[i] \in Catalog
                   /\ ~Available(op.params.engines_to_sync[i]))
    => LET list == op.params.engines_to_sync
           unknown == {i \in 1..Len(list) : list[i] \notin Catalog}
           missing == {i \in 1..Len(list) : list[i] \in Catalog
                                            /\ ~Available(list[i])}
           m == CHOOSE i \in missing : \A j \in missing : i <= j
       IN  /\ ret.kind = "Err"
           /\ IF \E u \in unknown : u < m
              THEN /\ ret.err = "UnknownEngine"
                   /\ \E u \in unknown : /\ ret.arg = list[u]
                                         /\ \A v \in unknown : u <= v
              ELSE ret.err = "UnsupportedFeature" /\ ret.arg = list[m]
           /\ Untouched

\* Only the credentials store is registered and the list is [bookmarks].
C2_Witness ==
    /\ IsSync
    /\ logins = "alive"
    /\ places # "alive"
    /\ op.params.engines_to_sync = <<BOOKMARKS_ENGINE>>
    /\ ret = RetErr("UnsupportedFeature", BOOKMARKS_ENGINE)

\* C3: in every pass the device registry ("clients") engine runs before any
\* store adapter; when its sync fails no store adapter runs, the status is
\* not Ok and the result reports no per-engine outcome.
C3_RegistryFirstAndFatal ==
    IsSync =>
        /\ \A i \in 1..Len(calls) :
               calls[i] \in AdapterCalls
               => \E j \in 1..(i - 1) : calls[j] = "clients.sync"
        /\ "clients.sync" \in failed
           => /\ Range(calls) \cap AdapterCalls = {}
              /\ ret.has_result
              /\ ret.status # "Ok"
              /\ DOMAIN ret.results = {}

\* The registry failed in a pass that had all three adapters to run.
C3_Witness ==
    /\ IsSync
    /\ "clients.sync" \in failed
    /\ Len(stores) = 3
    /\ ret.has_result

\* C4: when the device registry succeeded, every adapter of the pass ran,
\* whether or not an earlier one failed, and the failure map holds exactly
\* the engines whose adapter failed, each with its message.
C4_FailureMapExact ==
    (IsSync /\ ret.has_result /\ "clients.sync" \notin failed)
    => /\ Range(calls) \cap AdapterCalls = {AdapterCall(e) : e \in Range(stores)}
       /\ DOMAIN ret.results = {e \in Catalog : AdapterCall(e) \in failed}
       /\ \A e \in DOMAIN ret.results : ret.results[e] = "sync error"

\* The first of three adapters failed, the later two ran and succeeded, and
\* the map has the one entry.
C4_Witness ==
    /\ IsSync
    /\ ret.has_result
    /\ stores = <<HISTORY_ENGINE, BOOKMARKS_ENGINE, LOGINS_ENGINE>>
    /\ failed = {"history.sync"}
    /\ {"bookmarks.sync", "passwords.sync"} \subseteq Range(calls)
    /\ DOMAIN ret.results = {HISTORY_ENGINE}

\* C5: after a pass returned a Sync Result the manager's in-memory cached
\* state is the version the pass produced.
C5_CacheHoldsPassVersion ==
    (IsSync /\ ret.has_result)
    => (is_some(mem_cached_state) /\ mem_cached_state = pass_mem)

\* C6: credentials and bookmarks registered, all engines requested, the
\* credentials lock poisoned: the caller gets an error value (no panic) and
\* the bookmarks adapter is not run.
C6_PoisonedLockReported ==
    (/\ IsSync
     /\ op.params.sync_all_engines
     /\ op.params.engines_to_sync = <<>>
     /\ GoodCredentials(op.params)
     /\ places = "alive"
     /\ logins = "alive"
     /\ logins_poisoned)
    => (ret.kind = "Err" /\ "bookmarks.sync" \notin Range(calls))

\* C7: wipe_all returns success in every registry state and for every
\* outcome of the stores' wipes.
C7_WipeAllNeverFails ==
    op.name = "wipe_all" => ret.kind = "Ok"

\* C8: disconnect returns normally in every registry state and for every
\* outcome of the resets, and attempts the reset of every live store.
C8_DisconnectAlwaysSucceeds ==
    op.name = "disconnect"
    => /\ ret.kind = "Ok"
       /\ logins = "alive" => "logins.reset" \in Range(calls)
       /\ places = "alive" => {"places.reset_bookmarks", "places.reset_history"}
                                  \subseteq Range(calls)

\* C9: wipe(name) and reset(name) answer UnknownEngine exactly for the names
\* outside the catalog; for a catalog name they answer ConnectionClosed when
\* its store has no live owner and otherwise run the operation on the store.
\* The credentials engine is "passwords" in the sync catalog and "logins" in
\* wipe and reset: the formula accepts either name for it.
C9_CatalogNamesRecognized ==
    op.name \in {"wipe", "reset"}
    => LET n == op.params.engine
       IN  /\ n \in {BOOKMARKS_ENGINE, HISTORY_ENGINE}
              => /\ ret.err # "UnknownEngine"
                 /\ places # "alive" => ret = RetErr("ConnectionClosed", n)
                 /\ places = "alive" => calls # <<>>
           /\ n \notin Catalog \cup {"logins"} => ret = RetErr("UnknownEngine", n)
           /\ (n \in {LOGINS_ENGINE, "logins"} /\ ret.err # "UnknownEngine")
              => /\ logins # "alive" => ret = RetErr("ConnectionClosed", n)
                 /\ logins = "alive" => calls # <<>>

\* C10: a sync request that fails validation or credential parsing returns
\* an error, validation first, and has no side effect: no connection
\* opened, no lock taken, no adapter run, the manager's fields unchanged.
C10_RejectedRequestHasNoEffect ==
    [][(/\ op'.name = "sync"
        /\ \/ Offending(op'.params.engines_to_sync) # {}
           \/ ~GoodCredentials(op'.params))
       => /\ ret'.kind = "Err"
          /\ Offending(op'.params.engines_to_sync) # {}
             => ret'.err \in {"UnknownEngine", "UnsupportedFeature"}
          /\ Offending(op'.params.engines_to_sync) = {}
             => ret'.err = (IF op'.params.acct_sync_key # GoodKey
                            THEN "Sync15Error" ELSE "UrlParseError")
          /\ calls' = <<>>
          /\ stores' = <<>>
          /\ failed' = {}
          /\ UNCHANGED <<mem_cached_state, places, logins, logins_poisoned>>]_vars

\* A request with an unparsable token-server URL and a valid list, made
\* with both stores registered, was rejected.
C10_Witness ==
    /\ IsSync
    /\ places = "alive"
    /\ logins = "alive"
    /\ op.params.engines_to_sync = <<BOOKMARKS_ENGINE, LOGINS_ENGINE>>
    /\ ret.kind = "Err"
    /\ ret.err = "UrlParseError"

\* C11: every pass that produces a sync result returns a persisted state:
\* the blob the pass wrote when it wrote one, else the blob the caller
\* supplied, else the empty blob; this holds for the passes that failed too.
C11_PersistedStateAlwaysReturned ==
    (IsSync /\ ret.has_result)
    => ret.persisted_state =
          (IF "clients.sync" \notin failed THEN "state-1"
           ELSE IF is_some(op.params.persisted_state)
           THEN op.params.persisted_state[1]
           ELSE "")

\* A pass whose caller supplied no blob failed at the device registry and
\* returned the empty blob in its sync result.
C11_Witness ==
    /\ IsSync
    /\ ret.has_result
    /\ "clients.sync" \in failed
    /\ ret.status # "Ok"
    /\ op.params.persisted_state = None
    /\ ret.persisted_state = ""

\* The public status of each internal status.
PublicStatus ==
    [s \in S15Statuses |->
        IF s = "Ok" THEN "Ok"
        ELSE IF s = "NetworkError" THEN "NetworkError"
        ELSE IF s = "ServiceError" THEN "ServiceError"
        ELSE IF s = "AuthenticationError" THEN "AuthError"
        ELSE IF s = "BackedOff" THEN "BackedOff"
        ELSE "OtherError"]

\* C12: the status of a sync result is the image of the status sync15
\* reported under the fixed table (interrupted and other errors both become
\* OtherError), and it is Ok only when sync15 reported Ok.
C12_StatusIsImageOfInternal ==
    (IsSync /\ ret.has_result)
    => /\ service_status \in S15Statuses
       /\ ret.status = PublicStatus[service_status]
       /\ (ret.status = "Ok") <=> (service_status = "Ok")

\* An interrupted pass returned a sync result with status OtherError.
C12_Witness ==
    /\ IsSync
    /\ ret.has_result
    /\ service_status = "Interrupted"
    /\ ret.status = "OtherError"

\* C13: decoding a client record and encoding it again materializes no
\* field: a field of the record that the document read did not carry is not
\* in the document written, and a field it carried is written with the
\* same name and value.
C13_RoundTripMaterializesNothing ==
    (record_out # NoRecord)
    => \A f \in ClientFields :
          IF f \in DOMAIN record_in
          THEN f \in DOMAIN record_out /\ record_out[f] = record_in[f]
          ELSE f \notin DOMAIN record_out

Selected(e) ==
    op.params.sync_all_engines \/ e \in Range(op.params.engines_to_sync)
LockCount == Cardinality({i \in 1..Len(calls) : calls[i] = "logins.lock"})

\* C14: a request with the all-engines flag, while some store has no live
\* handle, treats that store as not available: the pass proceeds with the
\* stores that are available and returns a sync result; it does not crash.
C14_AllEnginesSkipsMissingStores ==
    (/\ IsSync
     /\ op.params.sync_all_engines
     /\ Offending(op.params.engines_to_sync) = {}
     /\ GoodCredentials(op.params)
     /\ \E e \in Catalog : ~Available(e)
     /\ ~(logins = "alive" /\ logins_poisoned))
    => /\ ret.kind = "Ok"
       /\ ret.has_result
       /\ \A e \in Range(stores) : Available(e)

\* C15: the stores handed to the driver are the engines that are available
\* and selected; a valid request that does not select the credentials
\* engine while the credentials store is registered returns a sync result
\* and neither locks nor runs the credentials store.
C15_StoresAreAvailableAndSelected ==
    (/\ IsSync
     /\ Offending(op.params.engines_to_sync) = {}
     /\ GoodCredentials(op.params)
     /\ (places = "alive" \/ (~Selected(HISTORY_ENGINE) /\ ~Selected(BOOKMARKS_ENGINE)))
     /\ "places.open_sync_connection" \notin failed)
    => /\ ret.has_result
       /\ Range(stores) = {e \in Catalog : Available(e) /\ Selected(e)}
       /\ ~Selected(LOGINS_ENGINE)
            => ("logins.lock" \notin Range(calls)
                /\ "passwords.sync" \notin Range(calls))

C17_EveryAdapterGetsPassScope ==
    (IsSync /\ ret.has_result)
    => \A e \in Range(stores) \cup {"clients"} :
          adapter_interruptee(e) = "pass scope"

\* C18: wipe_all attempts the wipe of every connected engine of the catalog
\* (credentials, bookmarks and history), whether or not another wipe failed.
C18_WipeAllAttemptsEveryEngine ==
    (op.name = "wipe_all" /\ ret.kind # "Panic")
    => /\ logins = "alive" => "logins.wipe" \in Range(calls)
       /\ places = "alive" => "places.wipe_bookmarks" \in Range(calls)
       /\ places = "alive" => "places.wipe_history" \in Range(calls)

\* C19: when opening the places connection fails, the pass is not aborted:
\* no history or bookmarks adapter is built, the device registry and the
\* other selected stores run, and a sync result is returned.
C19_OpenFailureSkipsPlacesOnly ==
    (IsSync /\ "places.open_sync_connection" \in failed)
    => /\ ret.has_result
       /\ HISTORY_ENGINE \notin Range(stores)
       /\ BOOKMARKS_ENGINE \notin Range(stores)
       /\ "clients.sync" \in Range(calls)
       /\ (Available(LOGINS_ENGINE) /\ Selected(LOGINS_ENGINE)
           /\ "clients.sync" \notin failed)
            => "passwords.sync" \in Range(calls)

\* C20: the catalog is the same for every operation: wipe and reset reject
\* a name as unknown exactly when the validation of a sync request does.
C20_SameCatalogEverywhere ==
    (op.name \in {"wipe", "reset"})
    => ((ret.kind = "Err" /\ ret.err = "UnknownEngine")
        <=> (check_engine_list(<<op.params.engine>>,
                               <<HISTORY_ENGINE, BOOKMARKS_ENGINE,
                                 LOGINS_ENGINE>>).err = "UnknownEngine"))
====
